---- MODULE Spec2Model ----
(***************************************************************************)
(* The prediction store of reflux (src/stores/prediction.js): the outputs  *)
(* registry, the operations that mutate it, and the asynchronous poll      *)
(* cycle with its two suspension points (the batch poll call and the       *)
(* conversion of a result asset).                                          *)
(*                                                                         *)
(* JavaScript objects are modelled with their identity where the code can  *)
(* observe it: an Output object is never mutated in place (the poll cycle  *)
(* replaces the array slot by a copy), so it is a record; its metadata     *)
(* object is mutated in place by updateOutputPosition and is shared by the *)
(* shallow copy {...output}, so it lives in a heap and the Output holds a  *)
(* reference to it.  An array slot may be a hole: outputs[i] = v with i    *)
(* beyond the end of the array leaves the slots in between empty.          *)
(***************************************************************************)
EXTENDS Integers, Sequences, FiniteSets, TLC

\* ---------------------------------------------------------------- bounds
MaxOutputs == 2
MaxCycles == 2
MaxRefs == 2

\* ------------------------------------------------------------- constants
baseSize == 300

\* Ids the remote service hands out; "" is a falsy id.  The creation endpoint
\* returns a job id at most once (a job is created once).
JobIds == {"j1", "j2"}
NoId == ""
ResponseIds == JobIds \cup {NoId}
\* A third job, for the registry of three Outputs.
ThirdJobId == "j3"
\* status and input as the creation endpoint and the poll endpoint report them.
CreateStatuses == {"starting"}
CreateInputs == {"in1"}
PollStatuses == {"starting", "succeeded", "failed"}
PollInputs == {"in2"}
\* input.aspect_ratio, a string "W:H", as its characters.
AspectRatios == {<<"4", ":", "3">>}

\* -------------------------------------------------- result references
\* A result is null, one reference or an array of references.  A reference
\* is a string given by its scheme, the extension of its last path segment
\* and the rest of it; isString = FALSE is a non-string element.
NullOutput == [kind |-> "null", elems |-> <<>>]
Scalar(ref) == [kind |-> "scalar", elems |-> <<ref>>]
Array(refs) == [kind |-> "array", elems |-> refs]

Url(ext, body) == [isString |-> TRUE, scheme |-> "https", ext |-> ext, body |-> body]
DataUri(fileType, payload) ==
    [isString |-> TRUE, scheme |-> "data", ext |-> fileType, body |-> payload]

\* What the network and the FileReader do to one conversion.
FetchKinds == {"ok", "fetchFail", "encodeFail"}

imageExtensions == {"jpg", "jpeg", "png", "gif", "webp"}

fileTypeOf(fileExtension, blobType) ==
    IF fileExtension \in imageExtensions
    THEN "image/" \o (IF fileExtension = "jpg" THEN "jpeg" ELSE fileExtension)
    ELSE IF blobType # "" THEN blobType ELSE "application/octet-stream"

\* Mutant: a failed encoding falls back to the reference, like a failed fetch.
convertSingleEncodeFallsBack(url, net) ==
    IF ~url.isString \/ url.scheme # "https" \/ net.kind # "ok"
    THEN [rejected |-> FALSE, value |-> url]
    ELSE [rejected |-> FALSE,
          value |-> DataUri(fileTypeOf(url.ext, net.blobType), "base64(" \o url.body \o ")")]

\* convertSingle: resolves to value, or rejects (rejected = TRUE).
convertSingle(url, net) ==
    IF ~url.isString \/ url.scheme # "https"
    THEN [rejected |-> FALSE, value |-> url]
    ELSE IF net.kind = "fetchFail"
    THEN [rejected |-> FALSE, value |-> url]
    ELSE IF net.kind = "encodeFail"
    THEN [rejected |-> TRUE, value |-> url]
    ELSE [rejected |-> FALSE,
          value |-> DataUri(fileTypeOf(url.ext, net.blobType), "base64(" \o url.body \o ")")]

\* urlToBase64: nets[i] is what happens to the i-th reference.  Promise.all
\* rejects as soon as one element rejects.
urlToBase64(urlOrArray, nets) ==
    LET rs == [i \in DOMAIN urlOrArray.elems |-> convertSingle(urlOrArray.elems[i], nets[i])]
    IN  IF \E i \in DOMAIN rs : rs[i].rejected
        THEN [rejected |-> TRUE, value |-> NullOutput]
        ELSE [rejected |-> FALSE,
              value |-> [kind |-> urlOrArray.kind,
                         elems |-> [i \in DOMAIN rs |-> rs[i].value]]]

\* prediction.output is truthy: any non-null value of the shapes above.
Truthy(out) == out.kind # "null"

\* ------------------------------------------------------------ the state
VARIABLES
    outputs,    \* this.outputs: sequence of Output records or holes
    heap,       \* metadata objects, by reference
    cycles,     \* the invocations of pollIncompletePredictions in flight
    issued,     \* job ids the creation endpoint has returned so far
    last        \* the last step: what the environment answered, and
                \* whether a TypeError was thrown in it

vars == <<outputs, heap, cycles, issued, last>>

\* A metadata object is allocated by createPrediction alone, one per job
\* id returned: the job id names the object.
Refs == ResponseIds \cup {ThirdJobId}
NoRef == "no object"

\* A number that is a quotient of two integers, in lowest terms: a height
\* need not be an integer (168.75 for "16:9").
RECURSIVE gcd(_, _)
gcd(a, b) == IF b = 0 THEN a ELSE gcd(b, a % b)

Quotient(n, d) == [num |-> n \div gcd(n, d), den |-> d \div gcd(n, d)]

FreeMeta == [prediction_id |-> NoId, x |-> 0, y |-> 0, rotation |-> 0,
             width |-> 0, height |-> Quotient(0, 1)]

Hole == [hole |-> TRUE, id |-> "", status |-> "", input |-> "",
         output |-> NullOutput, metadata |-> NoRef]

Output(id, status, input, output, ref) ==
    [hole |-> FALSE, id |-> id, status |-> status, input |-> input,
     output |-> output, metadata |-> ref]

NoPrediction == [id |-> NoId, status |-> "", input |-> "", output |-> NullOutput]

\* One invocation of pollIncompletePredictions.  pc: where it is suspended;
\* req: the ids of the poll request in flight; cur, rest, todo,
\* updatedOutput, outputIndex: the locals of the reconciliation loops.
\* before, cleanedAt and applied are history: the registry when the
\* invocation started and after its cleanup step, and whether this
\* invocation has written an Output back.
IdleCycle == [pc |-> "idle", req |-> <<>>, cur |-> NoPrediction, rest |-> <<>>,
              todo |-> <<>>, updatedOutput |-> Hole, outputIndex |-> 0,
              before |-> <<>>, cleanedAt |-> <<>>, applied |-> FALSE]

Cycles == 1 .. MaxCycles

Event(e) == [event |-> e, threw |-> FALSE]
Threw(e) == [event |-> e, threw |-> TRUE]

\* ------------------------------------------------------------- helpers
Range(s) == {s[i] : i \in DOMAIN s}

\* Array.prototype.filter skips holes.
Filter(s, Keep(_)) ==
    LET Test(o) == ~o.hole /\ Keep(o) IN SelectSeq(s, Test)

\* Array.prototype.findIndex(o => o.id === id) visits holes as undefined, and
\* o.id then throws a TypeError.  index is 1-based; -1 is "not found".
RECURSIVE findIndexFrom(_, _, _)
findIndexFrom(s, id, i) ==
    IF i > Len(s) THEN [threw |-> FALSE, index |-> -1]
    ELSE IF s[i].hole THEN [threw |-> TRUE, index |-> -1]
    ELSE IF s[i].id = id THEN [threw |-> FALSE, index |-> i]
    ELSE findIndexFrom(s, id, i + 1)

findIndex(s, id) == findIndexFrom(s, id, 1)

\* Mutant: the Output is pushed, not stored at its index.
WriteAtEnd(s, i, v) == Append(s, v)

\* outputs[i] = v: beyond the end, the slots in between become holes.
RECURSIVE Holes(_)
Holes(n) == IF n <= 0 THEN <<>> ELSE <<Hole>> \o Holes(n - 1)

WriteAt(s, i, v) ==
    IF i <= Len(s) THEN [s EXCEPT ![i] = v]
    ELSE s \o Holes(i - Len(s) - 1) \o <<v>>

\* Metadata objects no Output of the registry or of a cycle refers to are
\* garbage: their slot is freed.
LiveRefs(outs, cys) ==
    {o.metadata : o \in {p \in Range(outs) : ~p.hole}}
    \cup UNION {{o.metadata : o \in Range(cys[c].todo)} : c \in Cycles}
    \cup {cys[c].updatedOutput.metadata : c \in {d \in Cycles : ~cys[d].updatedOutput.hole}}

Collect(h, outs, cys) ==
    [r \in Refs |-> IF r \in LiveRefs(outs, cys) THEN h[r] ELSE FreeMeta]

Init ==
    /\ outputs = <<>>
    /\ heap = [r \in Refs |-> FreeMeta]
    /\ cycles = [c \in Cycles |-> IdleCycle]
    /\ issued = {}
    /\ last = Event("none")

\* ---------------------------------------------------------- operations
\* resetStore()
resetStore ==
    /\ outputs' = <<>>
    /\ heap' = Collect(heap, outputs', cycles)
    /\ last' = Event("none")
    /\ UNCHANGED <<cycles, issued>>

\* Mutant: the prediction_id of an Output is not looked at.
HasPredictionIdAlways(h, o) == TRUE

\* cleanupOutputs(): keep the Outputs whose prediction_id is non-empty.
HasPredictionId(h, o) == h[o.metadata].prediction_id # NoId

cleaned(outs, h) == LET Keep(o) == HasPredictionId(h, o) IN Filter(outs, Keep)

cleanupOutputs ==
    /\ outputs' = cleaned(outputs, heap)
    /\ heap' = Collect(heap, outputs', cycles)
    /\ last' = Event("none")
    /\ UNCHANGED <<cycles, issued>>

\* "W:H".split(':').map(Number)
RECURSIVE splitAt(_, _, _)
splitAt(chars, sep, acc) ==
    IF chars = <<>> THEN <<acc>>
    ELSE IF Head(chars) = sep THEN <<acc>> \o splitAt(Tail(chars), sep, <<>>)
    ELSE splitAt(Tail(chars), sep, Append(acc, Head(chars)))

split(chars, sep) == splitAt(chars, sep, <<>>)

digit(ch) ==
    CASE ch = "0" -> 0 [] ch = "1" -> 1 [] ch = "2" -> 2 [] ch = "3" -> 3
      [] ch = "4" -> 4 [] ch = "5" -> 5 [] ch = "6" -> 6 [] ch = "7" -> 7
      [] ch = "8" -> 8 [] ch = "9" -> 9

RECURSIVE Number(_)
Number(chars) ==
    IF chars = <<>> THEN 0
    ELSE 10 * Number(SubSeq(chars, 1, Len(chars) - 1)) + digit(chars[Len(chars)])

\* Mutant: the ratio is taken the other way round.
scaledHeightByWidth(aspect_ratio) ==
    LET parts == split(aspect_ratio, ":")
        width == Number(parts[1])
        height == Number(parts[2])
        ratio == Quotient(width, height)
    IN  Quotient(ratio.num * baseSize, ratio.den)

\* (height / width) * baseSize, as the exact quotient.  For the aspect
\* ratios drawn in this module the double the code computes is this
\* quotient.
scaledHeight(aspect_ratio) ==
    LET parts == split(aspect_ratio, ":")
        width == Number(parts[1])
        height == Number(parts[2])
        ratio == Quotient(height, width)
    IN  Quotient(ratio.num * baseSize, ratio.den)

outputId(prediction_id) == "output-" \o prediction_id

OutputIds == {outputId(p) : p \in ResponseIds}

\* What the creation endpoint may answer: the call throws, a response with
\* an error field, or a job whose id is one of ids.
CreateResponses(ids) ==
    {[kind |-> "throws", id |-> NoId, status |-> "", input |-> ""],
     [kind |-> "error", id |-> NoId, status |-> "", input |-> ""]}
    \cup [kind : {"ok"}, id : ids, status : CreateStatuses, input : CreateInputs]

newOutput(prediction, ref) ==
    Output(outputId(prediction.id), prediction.status, prediction.input, NullOutput, ref)

newMetadata(prediction, aspect_ratio) ==
    [prediction_id |-> prediction.id, x |-> 0, y |-> 0, rotation |-> 0,
     width |-> baseSize, height |-> scaledHeight(aspect_ratio)]

\* Mutant: the error field of the response is not looked at.
createFailedIgnoresError(prediction) == prediction.kind = "throws"

\* The creation call failed: $fetch threw, or the response has an error.
createFailed(prediction) == prediction.kind = "throws" \/ prediction.kind = "error"

\* createPrediction({input}), taken at the moment the creation call settles
\* (nothing of the registry is read before the await).  ratios: the
\* input.aspect_ratio values drawn; ids: the job ids the endpoint may return.
createPredictionOf(aspect_ratio, prediction) ==
    /\ last' = Event(IF prediction.kind = "ok" THEN "none" ELSE "create: failed")
    /\ IF createFailed(prediction)
       THEN UNCHANGED <<outputs, heap, cycles, issued>>
       ELSE /\ Len(outputs) < MaxOutputs
            /\ outputs' = Append(outputs, newOutput(prediction, prediction.id))
            /\ heap' = [heap EXCEPT ![prediction.id] =
                                        newMetadata(prediction, aspect_ratio)]
            /\ issued' = issued \cup {prediction.id}
            /\ UNCHANGED cycles

createPrediction(ratios, ids) ==
    \E aspect_ratio \in ratios, prediction \in CreateResponses(ids \ issued) :
        createPredictionOf(aspect_ratio, prediction)

\* updateOutputPosition({id, x, y, rotation, width, height}); width and
\* height may be undefined (hasWidth, hasHeight = FALSE).
Edits == [x : {10}, y : {20}, rotation : {90},
          hasWidth : BOOLEAN, width : {0}, hasHeight : BOOLEAN,
          height : {Quotient(150, 1)}]
Moves == {e \in Edits : ~e.hasWidth /\ ~e.hasHeight}

updatedMetadata(m, e) ==
    [m EXCEPT !.x = e.x, !.y = e.y, !.rotation = e.rotation,
              !.width = IF e.hasWidth THEN e.width ELSE @,
              !.height = IF e.hasHeight THEN e.height ELSE @]

updateOutputPositionOf(id, e) ==
    LET found == findIndex(outputs, id)
    IN  /\ heap' = IF ~found.threw /\ found.index # -1
                   THEN [heap EXCEPT ![outputs[found.index].metadata] =
                                          updatedMetadata(@, e)]
                   ELSE heap
        /\ last' = IF found.threw THEN Threw("none") ELSE Event("none")
        /\ UNCHANGED <<outputs, cycles, issued>>

updateOutputPosition(edits) ==
    \E id \in OutputIds, e \in edits : updateOutputPositionOf(id, e)

\* Mutant: an array of ids is compared like one id.
removedComparesOneId(outs, arg) ==
    LET Keep(o) == o.id # arg.id IN Filter(outs, Keep)

\* removeOutput(id): id is one id or an array of ids.
removed(outs, arg) ==
    LET Keep(o) == IF arg.isArray THEN o.id \notin arg.ids ELSE o.id # arg.id
    IN  Filter(outs, Keep)

RemoveArgs ==
    [isArray : {TRUE}, ids : {ids \in SUBSET OutputIds : Cardinality(ids) = 2}, id : {""}]
    \cup [isArray : {FALSE}, ids : {{}}, id : OutputIds]

removeOutputOf(arg) ==
    /\ outputs' = removed(outputs, arg)
    /\ heap' = Collect(heap, outputs', cycles)
    /\ last' = Event("none")
    /\ UNCHANGED <<cycles, issued>>

removeOutput == \E arg \in RemoveArgs : removeOutputOf(arg)

\* ------------------------------------------------------ the poll cycle
\* Mutant: a failed Output still counts as incomplete.
incompletePredictionsKeepsFailed(outs, h) ==
    LET Keep(o) == HasPredictionId(h, o) /\ o.status # "succeeded"
    IN  Filter(outs, Keep)

\* Mutant: a canceled Output counts as finished.
incompletePredictionsDropsCanceled(outs, h) ==
    LET Keep(o) == /\ HasPredictionId(h, o)
                   /\ o.status # "succeeded"
                   /\ o.status # "failed"
                   /\ o.status # "canceled"
    IN  Filter(outs, Keep)

\* getter incompletePredictions
incompletePredictions(outs, h) ==
    LET Keep(o) == /\ HasPredictionId(h, o)
                   /\ o.status # "succeeded"
                   /\ o.status # "failed"
    IN  Filter(outs, Keep)

\* [...new Set(ids)]: first occurrences, in order.
RECURSIVE dedup(_, _)
dedup(ids, seen) ==
    IF ids = <<>> THEN <<>>
    ELSE IF Head(ids) \in seen THEN dedup(Tail(ids), seen)
    ELSE <<Head(ids)>> \o dedup(Tail(ids), seen \cup {Head(ids)})

prediction_ids(outs, h) ==
    LET incomplete == incompletePredictions(outs, h)
        mapped == [i \in DOMAIN incomplete |-> h[incomplete[i].metadata].prediction_id]
        NonEmpty(id) == id # NoId
    IN  dedup(SelectSeq(mapped, NonEmpty), {})

\* Mutant: the request is sent even with no id.
nothingToPollNever(ids) == FALSE

\* if (prediction_ids.length === 0) return
nothingToPoll(ids) == Len(ids) = 0

\* What the poll endpoint may answer to a request for ids: the call throws,
\* no response, or a response: job records for some of the requested ids
\* (one object, or an array), or an object with an error field, which may
\* be the record of a failed job.
PollOutputs == {NullOutput, Scalar(Url("png", "a"))}

\* The records the service may report for job id, with a status of
\* statuses and a result of results.
Jobs(id, statuses, results) ==
    [id : {id}, status : statuses, input : PollInputs, output : results]

JobsFor(id) == Jobs(id, PollStatuses, PollOutputs)

RECURSIVE SubSeqs(_)
SubSeqs(s) ==
    IF s = <<>> THEN {<<>>}
    ELSE LET rest == SubSeqs(Tail(s))
         IN  rest \cup {<<Head(s)>> \o t : t \in rest}

RECURSIVE RecordsOf(_, _, _)
RecordsOf(ids, statuses, results) ==
    IF ids = <<>> THEN {<<>>}
    ELSE {<<j>> \o t : j \in Jobs(Head(ids), statuses, results),
                       t \in RecordsOf(Tail(ids), statuses, results)}

Records(ids) == RecordsOf(ids, PollStatuses, PollOutputs)

Answers(ids, statuses, results) ==
    [kind : {"throws", "none", "error"}, isArray : {FALSE}, items : {<<>>}]
    \cup {[kind |-> "error", isArray |-> FALSE, items |-> <<j>>] :
            j \in {k \in UNION {Jobs(ids[i], statuses, results) : i \in DOMAIN ids} :
                     k.status = "failed" /\ k.output = NullOutput}}
    \cup {[kind |-> "ok", isArray |-> TRUE, items |-> r] :
            r \in UNION {RecordsOf(q, statuses, results) : q \in SubSeqs(ids)}}
    \cup {[kind |-> "ok", isArray |-> FALSE, items |-> <<j>>] :
            j \in UNION {Jobs(ids[i], statuses, results) : i \in DOMAIN ids}}

PollResponses(ids) == Answers(ids, PollStatuses, PollOutputs)

\* Mutant: the error field of the response is not looked at.
pollFailedIgnoresError(pollResponse) ==
    pollResponse.kind = "throws" \/ pollResponse.kind = "none"

\* The poll call failed: $fetch threw, or !pollResponse || pollResponse.error
pollFailed(pollResponse) ==
    \/ pollResponse.kind = "throws"
    \/ pollResponse.kind = "none"
    \/ pollResponse.kind = "error"

\* The two loops of the reconciliation, run from the current position until
\* the next await (a conversion), a TypeError or the end.  cy.rest: the
\* predictions still to process; cy.cur and cy.todo: the prediction being
\* processed and its outputsToUpdate still to visit.
RECURSIVE reconcile(_, _, _)
reconcile(h, outs, cy) ==
    IF cy.todo # <<>>
    THEN LET output == Head(cy.todo)
             found == findIndex(outs, output.id)
             next == [cy EXCEPT !.todo = Tail(@)]
             updatedOutput == [output EXCEPT !.status = cy.cur.status,
                                             !.input = cy.cur.input]
         IN  IF found.threw
             THEN [outs |-> outs, cy |-> IdleCycle, threw |-> TRUE]
             ELSE IF found.index = -1
             THEN reconcile(h, outs, next)
             ELSE IF Truthy(cy.cur.output)
             THEN [outs |-> outs,
                   cy |-> [next EXCEPT !.pc = "awaitConvert",
                                       !.updatedOutput = updatedOutput,
                                       !.outputIndex = found.index],
                   threw |-> FALSE]
             ELSE reconcile(h, WriteAt(outs, found.index, updatedOutput),
                            [next EXCEPT !.applied = TRUE])
    ELSE IF cy.rest # <<>>
    THEN LET prediction == Head(cy.rest)
             next == [cy EXCEPT !.rest = Tail(@)]
             Matches(o) == h[o.metadata].prediction_id = prediction.id
         IN  IF prediction.id = NoId
             THEN reconcile(h, outs, next)
             ELSE reconcile(h, outs,
                            [next EXCEPT !.cur = prediction,
                                         !.todo = Filter(outs, Matches)])
    ELSE [outs |-> outs, cy |-> IdleCycle, threw |-> FALSE]

\* pollIncompletePredictions(), up to the await of the poll call.
pollInvoke(c) ==
    /\ cycles[c].pc = "idle"
    /\ outputs' = cleaned(outputs, heap)
    /\ LET ids == prediction_ids(outputs', heap)
       IN  cycles' = IF nothingToPoll(ids) THEN cycles
                     ELSE [cycles EXCEPT ![c] =
                             [IdleCycle EXCEPT !.pc = "awaitPoll", !.req = ids,
                                               !.before = outputs,
                                               !.cleanedAt = outputs']]
    /\ heap' = Collect(heap, outputs', cycles')
    /\ last' = Event("poll: invoked")
    /\ UNCHANGED issued

\* The poll call settles; the reconciliation runs to its first await.
pollResponseOf(c, pollResponse) ==
    /\ LET predictionsToProcess == pollResponse.items
           after == IF pollFailed(pollResponse)
                    THEN [outs |-> outputs, cy |-> IdleCycle, threw |-> FALSE]
                    ELSE reconcile(heap, outputs,
                                   [IdleCycle EXCEPT !.pc = "reconcile",
                                                     !.rest = predictionsToProcess])
       IN  /\ outputs' = after.outs
           /\ cycles' = [cycles EXCEPT ![c] = after.cy]
           /\ last' = [event |-> IF pollResponse.kind = "ok" THEN "none"
                                 ELSE "poll: call failed",
                       threw |-> after.threw]
    /\ heap' = Collect(heap, outputs', cycles')
    /\ UNCHANGED issued

\* responses: what the poll endpoint may answer to this request.
pollAnswered(c, responses) ==
    /\ cycles[c].pc = "awaitPoll"
    /\ \E pollResponse \in responses : pollResponseOf(c, pollResponse)

pollResponse(c) == pollAnswered(c, PollResponses(cycles[c].req))

\* What may happen to the conversion of a result of n references.
Nets(n) == [1 .. n -> [kind : FetchKinds, blobType : {""}]]

\* The worst that happened to one of the references.
NetEvent(nets) ==
    IF \E i \in DOMAIN nets : nets[i].kind = "encodeFail" THEN "convert: encoding failed"
    ELSE IF \E i \in DOMAIN nets : nets[i].kind = "fetchFail" THEN "convert: fetch failed"
    ELSE "convert: done"

\* Mutant: the copy written back carries a placement of its own, not the
\* metadata object of the Output it was copied from.
pollConvertedResetsPlacement(c, nets) ==
    /\ LET cy == cycles[c]
           converted == urlToBase64(cy.cur.output, nets)
           updatedOutput == IF converted.rejected THEN cy.updatedOutput
                            ELSE [cy.updatedOutput EXCEPT !.output = converted.value]
           after == reconcile(heap, WriteAt(outputs, cy.outputIndex, updatedOutput),
                              [cy EXCEPT !.pc = "reconcile", !.updatedOutput = Hole,
                                         !.outputIndex = 0, !.applied = TRUE])
       IN  /\ outputs' = after.outs
           /\ cycles' = [cycles EXCEPT ![c] = after.cy]
           /\ last' = [event |-> NetEvent(nets), threw |-> after.threw]
           /\ heap' = [Collect(heap, outputs', cycles') EXCEPT
                          ![cy.updatedOutput.metadata] =
                              [@ EXCEPT !.x = 0, !.y = 0, !.rotation = 0]]
    /\ UNCHANGED issued

\* urlToBase64 settles; the Output is written back and the loops go on.
pollConvertedOf(c, nets) ==
    /\ LET cy == cycles[c]
           converted == urlToBase64(cy.cur.output, nets)
           updatedOutput == IF converted.rejected THEN cy.updatedOutput
                            ELSE [cy.updatedOutput EXCEPT !.output = converted.value]
           after == reconcile(heap, WriteAt(outputs, cy.outputIndex, updatedOutput),
                              [cy EXCEPT !.pc = "reconcile", !.updatedOutput = Hole,
                                         !.outputIndex = 0, !.applied = TRUE])
       IN  /\ outputs' = after.outs
           /\ cycles' = [cycles EXCEPT ![c] = after.cy]
           /\ last' = [event |-> NetEvent(nets), threw |-> after.threw]
    /\ heap' = Collect(heap, outputs', cycles')
    /\ UNCHANGED issued

pollConverted(c) ==
    /\ cycles[c].pc = "awaitConvert"
    /\ \E nets \in Nets(Len(cycles[c].cur.output.elems)) : pollConvertedOf(c, nets)

\* ------------------------------------------------------- specifications
\* The store with one poll cycle in flight at a time.
Next ==
    \/ resetStore
    \/ cleanupOutputs
    \/ createPrediction(AspectRatios, ResponseIds)
    \/ updateOutputPosition(Moves)
    \/ removeOutput
    \/ pollInvoke(1)
    \/ pollResponse(1)
    \/ pollConverted(1)

Spec == Init /\ [][Next]_vars

\* The store with Outputs created and removed while a poll cycle is in
\* flight, and nothing else.
NextRemoval ==
    \/ createPrediction(AspectRatios, JobIds)
    \/ removeOutput
    \/ pollInvoke(1)
    \/ pollResponse(1)
    \/ pollConverted(1)

SpecRemoval == Init /\ [][NextRemoval]_vars

\* Poll cycles started while another is in flight, on the Outputs of one job.
OverlapIds == {"j1"}

NextOverlap ==
    \/ createPrediction(AspectRatios, OverlapIds)
    \/ \E c \in Cycles : pollInvoke(c)
    \/ \E c \in Cycles : pollResponse(c)
    \/ \E c \in Cycles : pollConverted(c)

SpecOverlap == Init /\ [][NextOverlap]_vars

\* Outputs created, moved and resized, and the registry reset, while a poll
\* cycle is in flight.
NextEdits ==
    \/ createPrediction(AspectRatios, JobIds)
    \/ updateOutputPosition(Edits)
    \/ resetStore
    \/ pollInvoke(1)
    \/ pollResponse(1)
    \/ pollConverted(1)

SpecEdits == Init /\ [][NextEdits]_vars

\* Outputs created for several aspect ratios, and the registry reset.
RatioCases ==
    {[text |-> <<"4", ":", "3">>, W |-> 4, H |-> 3],
     [text |-> <<"1", ":", "1">>, W |-> 1, H |-> 1],
     [text |-> <<"1", "6", ":", "9">>, W |-> 16, H |-> 9],
     [text |-> <<"3", ":", "2">>, W |-> 3, H |-> 2],
     [text |-> <<"2", ":", "3">>, W |-> 2, H |-> 3],
     [text |-> <<"4", ":", "5">>, W |-> 4, H |-> 5]}

InputRatios == {case.text : case \in RatioCases}

NextRatios ==
    \/ createPrediction(InputRatios, ResponseIds)
    \/ resetStore

SpecRatios == Init /\ [][NextRatios]_vars

\* urlToBase64 alone: the store as a poll response with a result has left
\* it, one call of urlToBase64 pending, for every result of up to MaxRefs
\* references.
InlineRefs ==
    {Url("png", "a"), Url("bin", "b"),
     [isString |-> TRUE, scheme |-> "blob", ext |-> "png", body |-> "c"],
     [isString |-> FALSE, scheme |-> "", ext |-> "", body |-> "d"]}

InlineInputs ==
    {Scalar(ref) : ref \in InlineRefs}
    \cup {Array(refs) : refs \in UNION {[1 .. n -> InlineRefs] : n \in 0 .. MaxRefs}}

InitInline ==
    \E urlOrArray \in InlineInputs :
        LET prediction == [id |-> "j1", status |-> "starting", input |-> "in1"]
            polled == [id |-> "j1", status |-> "succeeded", input |-> "in2",
                       output |-> urlOrArray]
            created == <<newOutput(prediction, "j1")>>
            h == [r \in Refs |-> IF r = "j1"
                                  THEN newMetadata(prediction, <<"4", ":", "3">>)
                                  ELSE FreeMeta]
            after == reconcile(h, created,
                               [IdleCycle EXCEPT !.pc = "reconcile", !.rest = <<polled>>])
        IN  /\ outputs = after.outs
            /\ heap = h
            /\ cycles = [c \in Cycles |-> IF c = 1 THEN after.cy ELSE IdleCycle]
            /\ issued = {"j1"}
            /\ last = Event("none")

NextInline == pollConverted(1)

SpecInline == InitInline /\ [][NextInline]_vars

\* The store with nothing interleaved in a poll cycle: the other operations
\* run only when no invocation of pollIncompletePredictions is in flight.
Quiet == \A c \in Cycles : cycles[c].pc = "idle"

NextSequential ==
    \/ Quiet /\ createPrediction(AspectRatios, ResponseIds)
    \/ Quiet /\ updateOutputPosition(Moves)
    \/ Quiet /\ removeOutput
    \/ Quiet /\ resetStore
    \/ pollInvoke(1)
    \/ pollResponse(1)
    \/ pollConverted(1)

SpecSequential == Init /\ [][NextSequential]_vars

\* One Output, moved and resized only while an invocation of
\* pollIncompletePredictions is suspended.
NextPlacement ==
    \/ createPrediction(AspectRatios, OverlapIds)
    \/ ~Quiet /\ updateOutputPosition(Edits)
    \/ pollInvoke(1)
    \/ pollResponse(1)
    \/ pollConverted(1)

SpecPlacement == Init /\ [][NextPlacement]_vars

\* Jobs the service reports as canceled, or as succeeded, without a result;
\* Outputs are removed meanwhile.
CanceledStatuses == {"canceled", "succeeded"}

NextCanceled ==
    \/ createPrediction(AspectRatios, JobIds)
    \/ removeOutput
    \/ pollInvoke(1)
    \/ pollAnswered(1, Answers(cycles[1].req, CanceledStatuses, {NullOutput}))

SpecCanceled == Init /\ [][NextCanceled]_vars

\* Three Outputs, as three successful createPrediction calls leave them;
\* Outputs are removed and the registry is polled.
ThreeStatuses == {"starting", "succeeded"}

InitThree ==
    LET Created(id) == [id |-> id, status |-> "starting", input |-> "in1"]
        ids == <<"j1", "j2", ThirdJobId>>
    IN  /\ outputs = [i \in 1 .. 3 |-> newOutput(Created(ids[i]), ids[i])]
        /\ heap = [r \in Refs |->
                     IF r = NoId THEN FreeMeta
                     ELSE newMetadata(Created(r), <<"4", ":", "3">>)]
        /\ cycles = [c \in Cycles |-> IdleCycle]
        /\ issued = JobIds \cup {ThirdJobId}
        /\ last = Event("none")

NextThree ==
    \/ removeOutput
    \/ pollInvoke(1)
    \/ pollAnswered(1, Answers(cycles[1].req, ThreeStatuses, PollOutputs))
    \/ pollConverted(1)

SpecThree == InitThree /\ [][NextThree]_vars

\* --------------------------------------------------------------- claims
Terminal == {"succeeded", "failed"}

\* The positions of the Outputs that are incomplete: a non-empty
\* prediction_id and a status that is not terminal.
Trackable(outs, h) ==
    {i \in DOMAIN outs : /\ ~outs[i].hole
                         /\ h[outs[i].metadata].prediction_id # NoId
                         /\ outs[i].status \notin Terminal}

\* Cycle c takes a step out of the suspension point pc.
Resumes(c, pc) == cycles[c].pc = pc /\ cycles'[c] # cycles[c]

\* C1: an invocation of pollIncompletePredictions sends at most one poll
\* request, and the ids of the request are, without repetition, the
\* prediction_ids of the incomplete Outputs of the registry as the cleanup
\* step left it; so they are no more than the incomplete Outputs.
C1_RequestIsTheIncompleteIds ==
    [][\A c \in Cycles :
        /\ cycles'[c].pc = "awaitPoll" /\ cycles'[c] # cycles[c]
              => cycles[c].pc = "idle"
        /\ cycles[c].pc = "idle" /\ cycles'[c].pc = "awaitPoll"
              => LET ids == cycles'[c].req
                     incomplete == Trackable(outputs', heap')
                 IN  /\ outputs' = cleaned(outputs, heap)
                     /\ Range(ids) = {heap'[outputs'[i].metadata].prediction_id :
                                        i \in incomplete}
                     /\ Cardinality(Range(ids)) = Len(ids)
                     /\ Len(ids) <= Cardinality(incomplete)]_vars

\* C1 witness: a request in flight that carries fewer ids than there are
\* incomplete Outputs (two Outputs of the same job).
C1_Witness ==
    \E c \in Cycles :
        /\ cycles[c].pc = "awaitPoll"
        /\ outputs = cycles[c].cleanedAt
        /\ Len(cycles[c].req) < Cardinality(Trackable(outputs, heap))

\* C2 as stated: when the batch poll call fails and nothing else has touched
\* the registry since the invocation's cleanup step, the registry is what it
\* was when the invocation started.
C2_RegistryAsAtStart ==
    [][\A c \in Cycles :
        /\ Resumes(c, "awaitPoll")
        /\ last'.event = "poll: call failed"
        /\ outputs = cycles[c].cleanedAt
        => outputs' = cycles[c].before]_vars

\* C2 amended: when the batch poll call fails, the registry is left as it was
\* when the call settled, metadata included; with nothing else touching the
\* registry, that is the registry the invocation's own cleanup step left.
C2_FailedCallMutatesNothing ==
    [][\A c \in Cycles :
        Resumes(c, "awaitPoll") /\ last'.event = "poll: call failed"
        => /\ outputs' = outputs
           /\ heap' = heap
           /\ cycles'[c] = IdleCycle]_vars

\* C2 witness: a batch poll call has just failed on a registry with Outputs.
C2_Witness ==
    /\ last.event = "poll: call failed"
    /\ \A c \in Cycles : cycles[c].pc = "idle"
    /\ Trackable(outputs, heap) # {}

\* C3: when the reconciliation of a job reported 'succeeded' with a result
\* ends, every Output of the registry with that job's prediction_id has the
\* job's status and input and the converted result.
C3_EveryMatchingOutputUpdated ==
    [][\A c \in Cycles :
        /\ Resumes(c, "awaitConvert")
        /\ cycles'[c].pc = "idle"
        /\ last' = Event("convert: done")
        /\ cycles[c].cur.status = "succeeded"
        => \A i \in DOMAIN outputs' :
              ~outputs'[i].hole
              /\ heap'[outputs'[i].metadata].prediction_id = cycles[c].cur.id
              => /\ outputs'[i].status = cycles[c].cur.status
                 /\ outputs'[i].input = cycles[c].cur.input
                 /\ outputs'[i].output # NullOutput]_vars

\* C4: no two Outputs of the registry have the same id.
C4_UniqueIds ==
    \A i, j \in DOMAIN outputs :
        i # j /\ ~outputs[i].hole /\ ~outputs[j].hole => outputs[i].id # outputs[j].id

\* C5: the write-back of a poll cycle that was suspended in a conversion
\* leaves every slot of the registry to the Output that holds it: an Output
\* removed meanwhile is not put back, no slot is added and no other Output is
\* overwritten; and the cycle ends without a TypeError.
C5_WriteBackKeepsSlots ==
    [][\A c \in Cycles :
        Resumes(c, "awaitConvert")
        => /\ Len(outputs') = Len(outputs)
           /\ \A i \in DOMAIN outputs :
                 /\ outputs'[i].hole = outputs[i].hole
                 /\ outputs'[i].id = outputs[i].id
           /\ ~last'.threw]_vars

\* C6: no poll cycle is suspended, with every other operation free to run,
\* after it has written back some of the Outputs of its response and before
\* it has written back the one it is converting.
C6_NoPartialReconciliationVisible ==
    \A c \in Cycles : ~(cycles[c].pc = "awaitConvert" /\ cycles[c].applied)

\* C7: no step of a poll cycle leaves an Output that had a result without
\* one.
C7_ResultNeverLost ==
    [][\A i \in DOMAIN outputs :
        ~outputs[i].hole /\ outputs[i].output # NullOutput
        => \E j \in DOMAIN outputs' :
              /\ ~outputs'[j].hole
              /\ outputs'[j].id = outputs[i].id
              /\ outputs'[j].output # NullOutput]_vars

\* C8 as stated: when the conversion fails, in the fetch or in the encoding,
\* the Output written back has the status and input of the response and the
\* result it had before.
C8_FailedConversionKeepsResult ==
    [][\A c \in Cycles :
        /\ Resumes(c, "awaitConvert")
        /\ last'.event \in {"convert: fetch failed", "convert: encoding failed"}
        => LET written == outputs'[cycles[c].outputIndex]
           IN  /\ written.status = cycles[c].cur.status
               /\ written.input = cycles[c].cur.input
               /\ written.output = cycles[c].updatedOutput.output]_vars

\* C8 amended: when the encoding fails, the Output written back has the status
\* and input of the response and the result the Output had when the
\* reconciliation copied it; when the fetch fails, its result is the
\* reference of the response, not converted.
C8_EncodingFailureKeepsResult ==
    [][\A c \in Cycles :
        Resumes(c, "awaitConvert")
        => LET written == outputs'[cycles[c].outputIndex]
               copied == cycles[c].updatedOutput
           IN  /\ last'.event = "convert: encoding failed"
                  => /\ written.status = cycles[c].cur.status
                     /\ written.input = cycles[c].cur.input
                     /\ written.output = copied.output
                     /\ written.id = copied.id
               /\ last'.event = "convert: fetch failed"
                  => /\ written.status = cycles[c].cur.status
                     /\ written.input = cycles[c].cur.input
                     /\ written.output = cycles[c].cur.output]_vars

\* C8 witness: an encoding has just failed on the only Output, which has a
\* result and the status of a response.
C8_Witness ==
    /\ last.event = "convert: encoding failed"
    /\ Len(outputs) = 1
    /\ ~outputs[1].hole
    /\ outputs[1].output # NullOutput
    /\ outputs[1].status = "succeeded"

\* C9: when the creation call fails, the registry is left exactly as it was.
C9_FailedCreationMutatesNothing ==
    [][last'.event = "create: failed"
        => outputs' = outputs /\ heap' = heap]_vars

\* C9 witness: a creation call has just failed on a registry with Outputs.
C9_Witness == last.event = "create: failed" /\ outputs # <<>>

\* C10: an invocation of pollIncompletePredictions on a registry with no
\* incomplete Output sends no poll request and throws nothing.
C10_NothingToPollSendsNothing ==
    [][last'.event = "poll: invoked" /\ Trackable(outputs, heap) = {}
        => cycles' = cycles /\ ~last'.threw]_vars

\* C10 witness: pollIncompletePredictions has just returned, with no request
\* in flight, on a registry of complete Outputs.
C10_Witness ==
    /\ last.event = "poll: invoked"
    /\ \A c \in Cycles : cycles[c].pc = "idle"
    /\ \E i \in DOMAIN outputs : ~outputs[i].hole /\ outputs[i].status \in Terminal

\* The elements of s at the positions I, in the order of s.
AtPositions(s, I) ==
    [k \in 1 .. Cardinality(I) |->
        s[CHOOSE i \in I : Cardinality({j \in I : j <= i}) = k]]

\* The positions of the Outputs with a non-empty prediction_id.
Identified(outs, h) ==
    {i \in DOMAIN outs : ~outs[i].hole /\ h[outs[i].metadata].prediction_id # NoId}

\* C11: after cleanupOutputs (called directly, or as the first step of
\* pollIncompletePredictions) the registry holds exactly the Outputs that
\* had a non-empty prediction_id before, in their original order and as they
\* were; each of them has a non-empty prediction_id, and cleaning the result
\* again changes nothing.
C11_CleanupKeepsTheIdentified ==
    [][(cleanupOutputs \/ \E c \in Cycles : pollInvoke(c)) =>
        /\ outputs' = AtPositions(outputs, Identified(outputs, heap))
        /\ \A k \in DOMAIN outputs' :
              /\ ~outputs'[k].hole
              /\ heap'[outputs'[k].metadata] = heap[outputs'[k].metadata]
              /\ heap'[outputs'[k].metadata].prediction_id # NoId
        /\ cleaned(outputs', heap') = outputs']_vars

\* A cleanup step has removed an Output and kept another.
C11_Witness ==
    \E c \in Cycles :
        /\ cycles[c].pc = "awaitPoll"
        /\ Len(cycles[c].cleanedAt) > 0
        /\ Len(cycles[c].cleanedAt) < Len(cycles[c].before)
        /\ outputs = cycles[c].cleanedAt

\* C12: removeOutput(id), with one id or an array of ids, leaves exactly
\* the Outputs whose id is not among the given ids, in their original order
\* and as they were, and throws nothing; so an id that matches no Output
\* removes no Output.
C12_RemoveLeavesTheOthers ==
    [][\A arg \in RemoveArgs : removeOutputOf(arg) =>
        LET given == IF arg.isArray THEN arg.ids ELSE {arg.id}
            others == {i \in DOMAIN outputs :
                         ~outputs[i].hole /\ outputs[i].id \notin given}
        IN  /\ outputs' = AtPositions(outputs, others)
            /\ \A k \in DOMAIN outputs' :
                  heap'[outputs'[k].metadata] = heap[outputs'[k].metadata]
            /\ ~last'.threw]_vars

\* Of the two Outputs created, one has been removed and the other is left
\* as it was created.
C12_Witness ==
    /\ issued = JobIds
    /\ \A c \in Cycles : cycles[c].pc = "idle"
    /\ outputs = <<Output(outputId("j2"), "starting", "in1", NullOutput, "j2")>>
    /\ heap["j2"].prediction_id = "j2"

\* The positions of the Outputs with the id.
WithId(outs, id) == {i \in DOMAIN outs : ~outs[i].hole /\ outs[i].id = id}

\* C13: updateOutputPosition({id, x, y, rotation, width, height}) changes
\* nothing when no Output has the id; otherwise it sets x, y and rotation of
\* the Output with the id, sets width (height) if and only if one is
\* given, and leaves the prediction_id, the Output's own fields, every other
\* Output and the order of the registry as they were.
C13_PositionEditFrame ==
    [][\A id \in OutputIds, e \in Edits : updateOutputPositionOf(id, e) =>
        /\ outputs' = outputs
        /\ WithId(outputs, id) = {} => heap' = heap
        /\ \A i \in WithId(outputs, id) :
              LET r == outputs[i].metadata
              IN  /\ heap'[r].x = e.x /\ heap'[r].y = e.y
                  /\ heap'[r].rotation = e.rotation
                  /\ heap'[r].width = IF e.hasWidth THEN e.width ELSE heap[r].width
                  /\ heap'[r].height = IF e.hasHeight THEN e.height ELSE heap[r].height
                  /\ heap'[r].prediction_id = heap[r].prediction_id
        /\ \A i \in DOMAIN outputs :
              ~outputs[i].hole /\ outputs[i].id # id
                  => heap'[outputs[i].metadata] = heap[outputs[i].metadata]]_vars

\* C14: a successful createPrediction with input.aspect_ratio "W:H"
\* appends one Output, whose width is 300 and whose height is (H / W) * 300;
\* for "4:3" the height is 225.
C14_CreatedSize ==
    [][\A case \in RatioCases, prediction \in CreateResponses(ResponseIds) :
        createPredictionOf(case.text, prediction) /\ prediction.kind = "ok" =>
            /\ Len(outputs') = Len(outputs) + 1
            /\ SubSeq(outputs', 1, Len(outputs)) = outputs
            /\ LET created == heap'[outputs'[Len(outputs')].metadata]
               IN  /\ created.width = 300
                   /\ created.height.den > 0
                   /\ created.height.num * case.W = 300 * case.H * created.height.den
                   /\ case.text = <<"4", ":", "3">>
                         => created.height = [num |-> 225, den |-> 1]]_vars

\* The registry holds an Output created for "4:3" and one created for
\* "16:9", whose height is 168.75.
C14_Witness ==
    /\ Len(outputs) = 2
    /\ heap[outputs[1].metadata].width = 300
    /\ heap[outputs[1].metadata].height = [num |-> 225, den |-> 1]
    /\ heap[outputs[2].metadata].height = [num |-> 675, den |-> 4]

\* A reference urlToBase64 fetches: a string that starts with https.
Fetchable(ref) == ref.isString /\ ref.scheme = "https"

\* C15: urlToBase64 keeps the shape of its argument: one reference gives one
\* reference, an array of n references gives an array of n, in the same
\* order; a reference that is not fetchable is returned as it is; and however
\* the fetch or the encoding of an element fails, the call yields the whole
\* array, with each failed element as the original reference and each other
\* element inlined.  The value the call yields is the result the pending
\* write-back stores.
C15_ConversionKeepsShape ==
    [][\A nets \in Nets(Len(cycles[1].cur.output.elems)) :
        cycles[1].pc = "awaitConvert" /\ pollConvertedOf(1, nets) =>
            LET urlOrArray == cycles[1].cur.output
                yielded == outputs'[cycles[1].outputIndex].output
            IN  /\ yielded.kind = urlOrArray.kind
                /\ Len(yielded.elems) = Len(urlOrArray.elems)
                /\ \A i \in DOMAIN urlOrArray.elems :
                      IF Fetchable(urlOrArray.elems[i]) /\ nets[i].kind = "ok"
                      THEN yielded.elems[i].scheme = "data"
                      ELSE yielded.elems[i] = urlOrArray.elems[i]]_vars

\* The job ids of a sequence of polled job records.
IdsOf(items) == {items[k].id : k \in DOMAIN items} \ {NoId}

\* A step of a poll cycle whose response names the job ids ids: the
\* registry keeps its length and, slot by slot, the id and the metadata
\* object of its Output with all the placement fields; an Output whose
\* prediction_id is not among ids is left as it was.
ReplacesInPlace(ids) ==
    /\ Len(outputs') = Len(outputs)
    /\ \A i \in DOMAIN outputs :
          /\ outputs'[i].hole = outputs[i].hole
          /\ outputs'[i].id = outputs[i].id
          /\ outputs'[i].metadata = outputs[i].metadata
          /\ ~outputs[i].hole =>
                /\ heap'[outputs[i].metadata] = heap[outputs[i].metadata]
                /\ heap[outputs[i].metadata].prediction_id \notin ids
                      => outputs'[i] = outputs[i]

\* C16: with no other operation interleaved, a poll cycle replaces each
\* Output it reconciles at its position: from the cleanup step on, every
\* step of the cycle keeps the number of Outputs and the order of their ids,
\* changes status, input and result only, and only of Outputs whose
\* prediction_id is in the response, and leaves ids, placement and every
\* other Output as they were.
C16_CycleReplacesInPlace ==
    [][\A c \in Cycles :
        /\ cycles[c].pc = "awaitPoll" => outputs = cycles[c].cleanedAt
        /\ \A response \in PollResponses(cycles[c].req) :
              cycles[c].pc = "awaitPoll" /\ pollResponseOf(c, response)
                  => ReplacesInPlace(IdsOf(response.items))
        /\ Resumes(c, "awaitConvert")
              => ReplacesInPlace(IdsOf(<<cycles[c].cur>> \o cycles[c].rest))]_vars

\* A cycle has reconciled both Outputs of the registry, one with a result.
C16_Witness ==
    /\ Quiet
    /\ last.event = "convert: done"
    /\ Len(outputs) = 2
    /\ outputs[1].input = "in2" /\ outputs[1].output = NullOutput
    /\ outputs[2].input = "in2" /\ outputs[2].output.kind = "scalar"
    /\ heap[outputs[1].metadata].x = 10
    /\ heap[outputs[2].metadata].x = 0

\* The conversion fails for some reference: its fetch or its encoding.
Fails(nets) == \E i \in DOMAIN nets : nets[i].kind # "ok"

\* C17: when the conversion of the result of one job fails, the Output
\* being reconciled is still written back with the status and input of the
\* response, and the cycle goes on with the other jobs of the response:
\* after the step, every Output of a later job of the response has the
\* status and input of that job, unless the cycle is suspended in the
\* conversion of that job's result or of the result of a job before it.
C17_FailedConversionStopsNothing ==
    [][\A c \in Cycles : \A nets \in Nets(Len(cycles[c].cur.output.elems)) :
        cycles[c].pc = "awaitConvert" /\ Fails(nets) /\ pollConvertedOf(c, nets) =>
            LET cy == cycles[c]
            IN  /\ ~last'.threw
                /\ cy.outputIndex \in DOMAIN outputs'
                /\ outputs'[cy.outputIndex].id = cy.updatedOutput.id
                /\ outputs'[cy.outputIndex].status = cy.cur.status
                /\ outputs'[cy.outputIndex].input = cy.cur.input
                /\ \A k \in DOMAIN cy.rest : \A i \in DOMAIN outputs' :
                      /\ cy.rest[k].id \notin {NoId, cy.cur.id}
                      /\ ~outputs'[i].hole
                      /\ heap'[outputs'[i].metadata].prediction_id = cy.rest[k].id
                      => \/ /\ outputs'[i].status = cy.rest[k].status
                            /\ outputs'[i].input = cy.rest[k].input
                         \/ /\ cycles'[c].pc = "awaitConvert"
                            /\ cy.rest[k] \in {cycles'[c].cur} \cup Range(cycles'[c].rest)]_vars

\* C18: once the status of an Output has been reconciled to succeeded or
\* failed, no step sets the status of that Output back to another value,
\* and the Output does not become incomplete again, whatever the order in
\* which the responses of overlapping poll cycles arrive.
C18_TerminalStaysTerminal ==
    [][\A i \in DOMAIN outputs : \A k \in DOMAIN outputs' :
        /\ ~outputs[i].hole /\ ~outputs'[k].hole
        /\ outputs[i].status \in Terminal
        /\ outputs'[k].id = outputs[i].id
        => /\ outputs'[k].status \in Terminal
           /\ k \notin Trackable(outputs', heap')]_vars

\* C19: a placement edit made while a poll cycle is suspended is not lost
\* by the write-back: every step of a poll cycle leaves the placement of
\* each Output of the registry (the Output written back included) as it was
\* just before the step, that is as the most recent updateOutputPosition
\* set it.
C19_WriteBackKeepsPlacement ==
    [][(\E c \in Cycles : Resumes(c, "awaitPoll") \/ Resumes(c, "awaitConvert")) =>
        \A k \in DOMAIN outputs' :
            ~outputs'[k].hole =>
                /\ heap'[outputs'[k].metadata] = heap[outputs'[k].metadata]
                /\ \A i \in DOMAIN outputs :
                      ~outputs[i].hole /\ outputs[i].id = outputs'[k].id
                          => outputs[i].metadata = outputs'[k].metadata]_vars

\* The Output was moved and resized while a cycle was suspended, and a
\* write-back after that has stored its final status and its result: the
\* placement is the edited one.
C19_Witness ==
    /\ Quiet
    /\ last.event = "convert: done"
    /\ Len(outputs) = 1
    /\ outputs[1].status = "succeeded"
    /\ outputs[1].output.kind = "scalar"
    /\ heap[outputs[1].metadata].x = 10
    /\ heap[outputs[1].metadata].rotation = 90
    /\ heap[outputs[1].metadata].width = 0

\* C20: an Output with a non-empty prediction_id and a status other than
\* succeeded and failed (canceled, for one) stays in incompletePredictions
\* as long as it is in the registry and no step gives it one of these two
\* statuses; every invocation of pollIncompletePredictions made while it is
\* so sends a request, and the request has its prediction_id.  So a job
\* reported as canceled is asked for again by every invocation.
C20_IncompleteIsPolledAgain ==
    [][/\ \A i \in Trackable(outputs, heap) : \A k \in DOMAIN outputs' :
            /\ ~outputs'[k].hole
            /\ outputs'[k].id = outputs[i].id
            /\ outputs'[k].status \notin Terminal
            => outputs'[k] \in Range(incompletePredictions(outputs', heap'))
       /\ \A c \in Cycles : cycles[c].pc = "idle" /\ pollInvoke(c) =>
            \A k \in DOMAIN outputs' :
                /\ ~outputs'[k].hole
                /\ heap'[outputs'[k].metadata].prediction_id # NoId
                /\ outputs'[k].status \notin Terminal
                => /\ cycles'[c].pc = "awaitPoll"
                   /\ heap'[outputs'[k].metadata].prediction_id
                         \in Range(cycles'[c].req)]_vars

\* A job reported as canceled is being polled again, next to a job that
\* has succeeded and is not.
C20_Witness ==
    /\ cycles[1].pc = "awaitPoll"
    /\ cycles[1].req = <<"j1">>
    /\ Len(outputs) = 2
    /\ outputs[1].status = "canceled" /\ heap[outputs[1].metadata].prediction_id = "j1"
    /\ outputs[2].status = "succeeded"

====
